---- MODULE Spec2Model ----
(***************************************************************************)
(* Model of the watch-collection valuation script (src/main.py,            *)
(* src/utils.py).                                                          *)
(*                                                                         *)
(* Conventions.                                                            *)
(*  - A Python str is a sequence of one-character strings.                 *)
(*  - A Python Optional value is None == <<>> or Some(v) == <<v>>.         *)
(*  - A price (a float with two decimals) is an integer number of cents.   *)
(*  - round(x, 2) of a value lying exactly between two cents depends on    *)
(*    the binary representation of the float; the model lets it go either  *)
(*    way (Round2Div yields both neighbours).                              *)
(***************************************************************************)
EXTENDS Integers, Sequences, FiniteSets, TLC

----------------------------------------------------------------------------
(* Bounds of the model *)

MaxRefLen == 5
MaxPosts == 2
MaxRecords == 2

----------------------------------------------------------------------------
(* Python values *)

None == <<>>
Some(v) == <<v>>

\* bool(x) for an Optional[float]: None and 0.0 are falsy
TruthyNum(o) == o # None /\ o[1] # 0

\* bool(x) for an Optional[List]: None and [] are falsy
TruthyList(o) == o # None /\ Len(o[1]) > 0

----------------------------------------------------------------------------
(* Python str methods, on sequences of characters *)

Whitespace == {" ", "\t"}

Digits == <<"0", "1", "2", "3", "4", "5", "6", "7", "8", "9">>

UpperChars == <<"A", "B", "C", "D", "E", "F", "G", "H", "I", "J", "K", "L", "M",
                "N", "O", "P", "Q", "R", "S", "T", "U", "V", "W", "X", "Y", "Z">>

LowerChars == <<"a", "b", "c", "d", "e", "f", "g", "h", "i", "j", "k", "l", "m",
                "n", "o", "p", "q", "r", "s", "t", "u", "v", "w", "x", "y", "z">>

IsDigit(c) == \E k \in 1..10 : Digits[k] = c

DigitVal(c) == (CHOOSE k \in 1..10 : Digits[k] = c) - 1

\* str.lower() of one character
lower_char(c) ==
    IF \E k \in 1..26 : UpperChars[k] = c
    THEN LowerChars[CHOOSE k \in 1..26 : UpperChars[k] = c]
    ELSE c

\* str.lower()
lower(s) == [k \in 1..Len(s) |-> lower_char(s[k])]

\* str.lstrip()
RECURSIVE lstrip(_)
lstrip(s) ==
    IF s # <<>> /\ Head(s) \in Whitespace THEN lstrip(Tail(s)) ELSE s

\* str.rstrip()
RECURSIVE rstrip(_)
rstrip(s) ==
    IF s # <<>> /\ s[Len(s)] \in Whitespace
    THEN rstrip(SubSeq(s, 1, Len(s) - 1))
    ELSE s

\* str.strip()
strip(s) == rstrip(lstrip(s))

\* s.replace(old, "", 1) for a one-character old
RECURSIVE remove_first(_, _)
remove_first(s, old) ==
    IF s = <<>> THEN <<>>
    ELSE IF Head(s) = old THEN Tail(s)
    ELSE <<Head(s)>> \o remove_first(Tail(s), old)

\* s.replace(old, new) for a one-character old
RECURSIVE replace_all(_, _, _)
replace_all(s, old, new) ==
    IF s = <<>> THEN <<>>
    ELSE (IF Head(s) = old THEN new ELSE <<Head(s)>>)
         \o replace_all(Tail(s), old, new)

\* word in s (substring test)
contains(s, word) ==
    \E k \in 0..(Len(s) - Len(word)) : SubSeq(s, k + 1, k + Len(word)) = word

\* s.split(): the maximal runs of non-whitespace characters, in order
RECURSIVE split(_)
split(s) ==
    LET t == lstrip(s)
        n == IF \E k \in 1..Len(t) : t[k] \in Whitespace
             THEN (CHOOSE k \in 1..Len(t) :
                     /\ t[k] \in Whitespace
                     /\ \A j \in 1..(k - 1) : t[j] \notin Whitespace) - 1
             ELSE Len(t)
    IN  IF t = <<>> THEN <<>>
        ELSE <<SubSeq(t, 1, n)>> \o split(SubSeq(t, n + 1, Len(t)))

----------------------------------------------------------------------------
(* utils.format_watch_reference *)

PercentTwenty == <<"%", "2", "0">>

format_watch_reference_all(reference) ==
    replace_all(replace_all(strip(reference), " ", <<>>), " ", PercentTwenty)

format_watch_reference(reference) ==
    replace_all(remove_first(strip(reference), " "), " ", PercentTwenty)

----------------------------------------------------------------------------
(* Python numbers *)

RECURSIVE Pow10(_)
Pow10(n) == IF n = 0 THEN 1 ELSE 10 * Pow10(n - 1)

\* the value of a sequence of decimal digits
RECURSIVE DigitsVal(_)
DigitsVal(ds) ==
    IF ds = <<>> THEN 0
    ELSE 10 * DigitsVal(SubSeq(ds, 1, Len(ds) - 1)) + DigitVal(ds[Len(ds)])

\* round(num / den, 0) for num >= 0, den > 0, as the set of its possible
\* results: a quotient exactly half way is rounded by the binary value of the
\* float, which may lie on either side
Round2Div(num, den) ==
    LET q == num \div den
        r == num % den
    IN  IF 2 * r < den THEN {q}
        ELSE IF 2 * r > den THEN {q + 1}
        ELSE {q, q + 1}

\* round(float(token), 2) in cents, for a token made of digits and at most
\* one "."; anything else is a ValueError (ok = FALSE).  Signs, exponents,
\* "inf"/"nan" and "_" are outside the modelled alphabet.  A token with
\* more than two fractional digits is rounded half-even on its decimal
\* digits.
float_round2(token) ==
    LET dots == {k \in 1..Len(token) : token[k] = "."}
        wellformed == /\ \A k \in 1..Len(token) : IsDigit(token[k]) \/ token[k] = "."
                      /\ Cardinality(dots) <= 1
                      /\ \E k \in 1..Len(token) : IsDigit(token[k])
        d == IF dots = {} THEN Len(token) + 1 ELSE CHOOSE k \in dots : TRUE
        ipart == SubSeq(token, 1, d - 1)
        fpart == SubSeq(token, d + 1, Len(token))
        n == DigitsVal(ipart \o fpart)
        scale == Pow10(Len(fpart))
        cands == Round2Div(n * 100, scale)
    IN  IF ~wellformed THEN [ok |-> FALSE, cents |-> 0]
        ELSE [ok |-> TRUE,
              cents |-> IF Cardinality(cands) = 1 THEN CHOOSE c \in cands : TRUE
                        ELSE CHOOSE c \in cands : c % 2 = 0]

\* int(s) for a str: surrounding whitespace is ignored, then only digits
\* (signs and "_" are outside the modelled alphabet); else ValueError
int_of_str(s) ==
    LET t == strip(s)
    IN  IF t # <<>> /\ \A k \in 1..Len(t) : IsDigit(t[k])
        THEN [ok |-> TRUE, value |-> DigitsVal(t)]
        ELSE [ok |-> FALSE, value |-> 0]

----------------------------------------------------------------------------
(* main.py: the listing extractor *)

\* A post is what soup.find_all("div", class "s-item__info clearfix") yields
\* for one result item: the texts of its role=heading spans, in order, and
\* the text of its first span of class ITALIC (None when it has none).
\* A document (html) is the sequence of its posts.

keyword_list ==
    << <<"s", "w", "a", "t", "c", "h">>,
       <<"w", "a", "t", "c", "h">>,
       <<"r", "e", "l", "o", "j">> >>

any_word_in_strings_cased(words, strings) ==
    \E i \in 1..Len(strings) : \E j \in 1..Len(words) :
        contains(strings[i], words[j])

any_word_in_strings(words, strings) ==
    \E i \in 1..Len(strings) : \E j \in 1..Len(words) :
        contains(lower(strings[i]), words[j])

\* the token handed to float(): first token, "." removed, "," turned to "."
clean_token(text) ==
    replace_all(replace_all(split(text)[1], ".", <<>>), ",", <<".">>)

\* parse_price: exc is the exception that escapes ("" for a normal return)
parse_price(post) ==
    IF ~any_word_in_strings(keyword_list, post.headings)
    THEN [exc |-> "", price |-> None]
    ELSE IF post.price_span # None /\ post.price_span[1] # <<>>
    THEN IF split(post.price_span[1]) = <<>>
         THEN [exc |-> "IndexError", price |-> None]
         ELSE LET f == float_round2(clean_token(post.price_span[1]))
              IN  IF f.ok THEN [exc |-> "", price |-> Some(f.cents)]
                  ELSE [exc |-> "", price |-> None]
    ELSE [exc |-> "", price |-> None]

\* [price for price in price_list if price is not None]
RECURSIVE not_none(_)
not_none(price_list) ==
    IF price_list = <<>> THEN <<>>
    ELSE (IF Head(price_list).price # None
          THEN <<Head(price_list).price[1]>> ELSE <<>>)
         \o not_none(Tail(price_list))

parse_ebay_results(html) ==
    LET post_count == Len(html)
        price_list == [k \in 1..post_count |-> parse_price(html[k])]
    IN  IF post_count = 0
        THEN [exc |-> "", prices |-> <<>>, post_count |-> 0]
        ELSE IF \E k \in 1..post_count : price_list[k].exc # ""
        THEN [exc |-> price_list[CHOOSE k \in 1..post_count :
                                    /\ price_list[k].exc # ""
                                    /\ \A j \in 1..(k - 1) : price_list[j].exc = ""].exc,
              prices |-> <<>>, post_count |-> 0]
        ELSE [exc |-> "", prices |-> not_none(price_list), post_count |-> post_count]

----------------------------------------------------------------------------
(* main.py: fetching one market segment *)

SoldFilter == "&LH_Sold=1&LH_Complete=1"

\* the endpoint of get_ebay_results: the _nkw parameter and the filter suffix
endpoint(watch_reference, check_active) ==
    [nkw |-> format_watch_reference(watch_reference),
     suffix |-> IF check_active THEN SoldFilter ELSE ""]

\* get_ebay_results on a given response of session.get; a response with
\* raises = TRUE stands for session.get raising a transport error
get_ebay_results(response) ==
    IF response.raises
    THEN [exc |-> "RequestException", prices |-> None, post_count |-> 0]
    ELSE IF response.status_code # 200
    THEN [exc |-> "", prices |-> None, post_count |-> 0]
    ELSE LET r == parse_ebay_results(response.text)
         IN  [exc |-> r.exc, prices |-> Some(r.prices), post_count |-> r.post_count]

----------------------------------------------------------------------------
(* main.py: the price aggregator and the per-record result *)

RECURSIVE sum(_)
sum(prices) == IF prices = <<>> THEN 0 ELSE Head(prices) + sum(Tail(prices))

\* calculate_average, as the set of its possible results
calculate_average(prices) ==
    IF Len(prices) > 0
    THEN {Some(a) : a \in Round2Div(sum(prices), Len(prices))}
    ELSE {None}

\* lines 97-98: calculate_average(results) if results else None
segment_average(segment_results) ==
    IF TruthyList(segment_results) THEN calculate_average(segment_results[1])
    ELSE {None}

\* lines 100-103, as the set of possible results
total_avg_of(avg_active, avg_sold) ==
    IF TruthyNum(avg_active) /\ TruthyNum(avg_sold)
    THEN {Some(t) : t \in Round2Div(avg_active[1] + avg_sold[1], 2)}
    ELSE IF TruthyNum(avg_sold) THEN {avg_sold} ELSE {avg_active}

\* line 113: round(total_avg * int(quantity), 2) if total_avg else None
total_value_of(total_avg, quantity) ==
    IF TruthyNum(total_avg)
    THEN IF int_of_str(quantity).ok
         THEN [exc |-> "", value |-> Some(total_avg[1] * int_of_str(quantity).value)]
         ELSE [exc |-> "ValueError", value |-> None]
    ELSE [exc |-> "", value |-> None]

----------------------------------------------------------------------------
(* Inputs *)

RefAlphabet == {" ", "\t", "G", "7"}

RECURSIVE StringsUpTo(_, _)
StringsUpTo(alphabet, n) ==
    IF n = 0 THEN {<<>>}
    ELSE LET shorter == StringsUpTo(alphabet, n - 1)
         IN  shorter \cup {Append(s, c) : s \in shorter, c \in alphabet}

References == StringsUpTo(RefAlphabet, MaxRefLen)

\* heading texts of a result item
HeadingLists ==
    { <<>>,
      << <<"S", "w", "a", "t", "c", "h", " ", "G", "B">> >>,
      << <<"b", "a", "n", "d">>, <<"R", "E", "L", "O", "J">> >>,
      << <<"w", "a", "t", " ", "c", "h">> >> }

\* price span of a result item: absent, "", " ", "0,00 EUR",
\* "1.234,55 EUR", "EUR 5,00"
PriceSpans ==
    { None,
      Some(<<>>),
      Some(<<" ">>),
      Some(<<"0", ",", "0", "0", " ", "E", "U", "R">>),
      Some(<<"1", ".", "2", "3", "4", ",", "5", "5", " ", "E", "U", "R">>),
      Some(<<"E", "U", "R", " ", "5", ",", "0", "0">>) }

Posts == [headings : HeadingLists, price_span : PriceSpans]

RECURSIVE SeqsUpTo(_, _)
SeqsUpTo(S, n) ==
    IF n = 0 THEN {<<>>}
    ELSE LET shorter == SeqsUpTo(S, n - 1)
         IN  shorter \cup {Append(s, x) : s \in shorter, x \in S}

Documents == SeqsUpTo(Posts, MaxPosts)

WatchPost(text) ==
    [headings |-> << <<"S", "w", "a", "t", "c", "h", " ", "G", "B">> >>,
     price_span |-> Some(text)]

OtherPost(text) ==
    [headings |-> << <<"S", "t", "r", "a", "p">> >>, price_span |-> Some(text)]

\* the pages the marketplace answers with in the pipeline
Pages ==
    { <<>>,
      <<WatchPost(<<"0", ",", "0", "0", " ", "E", "U", "R">>)>>,
      <<WatchPost(<<"1", "2", ",", "5", "0", " ", "E", "U", "R">>)>>,
      <<OtherPost(<<"7">>),
        WatchPost(<<"1", ".", "2", "3", "4", ",", "5", "5", " ", "E", "U", "R">>)>>,
      <<WatchPost(<<" ">>)>> }

\* what session.get can do: raise, answer with an error status, answer a page
Responses ==
    {[raises |-> TRUE, status_code |-> 0, text |-> <<>>],
     [raises |-> FALSE, status_code |-> 404, text |-> <<>>]}
    \cup {[raises |-> FALSE, status_code |-> 200, text |-> d] : d \in Pages}

\* rows of watches.csv, without year and name (which are only copied):
\* ("GB 743", "2") and ("GS1 ", "x")
Rows ==
    {[reference |-> <<"G", "B", " ", "7", "4", "3">>, quantity |-> <<"2">>],
     [reference |-> <<"G", "S", "1", " ">>, quantity |-> <<"x">>]}

Catalogs == SeqsUpTo(Rows, MaxRecords)

----------------------------------------------------------------------------
(* State *)

VARIABLES
    data,            \* calculate_collection_value: the catalog
    index,           \* position of the for loop in data (1-based)
    pc,              \* "loop", "sold", "blend", "done", "raised"
    exc,             \* the exception that escaped ("" when none)
    active_results,  \* process_watch local
    active_posts,    \* process_watch local
    sold_results,    \* process_watch local
    sold_posts,      \* process_watch local
    results,         \* calculate_collection_value: results
    fetches,         \* history: the requests made with session.get, in order
    html,            \* input of parse_ebay_results
    parsed,          \* outcome of parse_ebay_results(html), None before the call
    reference,       \* input of format_watch_reference
    formatted        \* the successive results of format_watch_reference

vars == <<data, index, pc, exc, active_results, active_posts, sold_results,
          sold_posts, results, fetches, html, parsed, reference, formatted>>

pipeline_vars == <<data, index, pc, exc, active_results, active_posts,
                   sold_results, sold_posts, results, fetches>>

IdlePipeline ==
    /\ data = <<>>
    /\ index = 1
    /\ pc = "idle"
    /\ exc = ""
    /\ active_results = None
    /\ active_posts = 0
    /\ sold_results = None
    /\ sold_posts = 0
    /\ results = <<>>
    /\ fetches = <<>>

IdleParse == html = <<>> /\ parsed = None

IdleFormat == reference = <<>> /\ formatted = <<>>

----------------------------------------------------------------------------
(* The pipeline: calculate_collection_value and process_watch *)

Init ==
    /\ data \in Catalogs
    /\ index = 1
    /\ pc = "loop"
    /\ exc = ""
    /\ active_results = None
    /\ active_posts = 0
    /\ sold_results = None
    /\ sold_posts = 0
    /\ results = <<>>
    /\ fetches = <<>>
    /\ IdleParse
    /\ IdleFormat

\* the record of one session.get: for which record, into which local of
\* process_watch its prices go ("active" for active_results, "sold" for
\* sold_results), which endpoint, and the status answered (None when the
\* call raised)
Request(watch_reference, check_active, into, response) ==
    [record |-> index,
     into |-> into,
     url |-> endpoint(watch_reference, check_active),
     status |-> IF response.raises THEN None ELSE Some(response.status_code)]

\* line 94: active_results, active_posts = get_ebay_results(.., check_active=True)
FetchActive ==
    /\ pc = "loop"
    /\ index <= Len(data)
    /\ \E response \in Responses :
         LET r == get_ebay_results(response)
         IN  /\ fetches' = Append(fetches, Request(data[index].reference, TRUE, "active", response))
             /\ IF r.exc # ""
                THEN /\ pc' = "raised"
                     /\ exc' = r.exc
                     /\ UNCHANGED <<active_results, active_posts>>
                ELSE /\ pc' = "sold"
                     /\ active_results' = r.prices
                     /\ active_posts' = r.post_count
                     /\ UNCHANGED exc
    /\ UNCHANGED <<data, index, sold_results, sold_posts, results,
                   html, parsed, reference, formatted>>

\* line 95: sold_results, sold_posts = get_ebay_results(.., check_active=False)
FetchSold ==
    /\ pc = "sold"
    /\ \E response \in Responses :
         LET r == get_ebay_results(response)
         IN  /\ fetches' = Append(fetches, Request(data[index].reference, FALSE, "sold", response))
             /\ IF r.exc # ""
                THEN /\ pc' = "raised"
                     /\ exc' = r.exc
                     /\ UNCHANGED <<sold_results, sold_posts>>
                ELSE /\ pc' = "blend"
                     /\ sold_results' = r.prices
                     /\ sold_posts' = r.post_count
                     /\ UNCHANGED exc
    /\ UNCHANGED <<data, index, active_results, active_posts, results,
                   html, parsed, reference, formatted>>

watch_info_of(row, avg_active, avg_sold, total_avg, total_value) ==
    [reference |-> row.reference,
     quantity |-> row.quantity,
     avg_active |-> avg_active,
     avg_sold |-> avg_sold,
     total_avg |-> total_avg,
     total_value |-> total_value,
     active_posts_found |-> active_posts,
     sold_posts_found |-> sold_posts]

results_insert_front(list, watch_info) == <<watch_info>> \o list

\* line 133: results.append(watch_info)
results_append(list, watch_info) == Append(list, watch_info)

\* lines 97-123 and 133: averages, blend, watch_info, results.append
Blend ==
    /\ pc = "blend"
    /\ \E avg_active \in segment_average(active_results) :
       \E avg_sold \in segment_average(sold_results) :
       \E total_avg \in total_avg_of(avg_active, avg_sold) :
         LET tv == total_value_of(total_avg, data[index].quantity)
         IN  IF tv.exc # ""
             THEN /\ pc' = "raised"
                  /\ exc' = tv.exc
                  /\ UNCHANGED <<index, results, active_results, active_posts,
                                 sold_results, sold_posts>>
             ELSE /\ results' = results_append(results,
                         watch_info_of(data[index], avg_active, avg_sold,
                                       total_avg, tv.value))
                  /\ index' = index + 1
                  /\ pc' = "loop"
                  /\ active_results' = None
                  /\ active_posts' = 0
                  /\ sold_results' = None
                  /\ sold_posts' = 0
                  /\ UNCHANGED exc
    /\ UNCHANGED <<data, fetches, html, parsed, reference, formatted>>

\* lines 135-137: the loop is over, results is returned
Return ==
    /\ pc = "loop"
    /\ index > Len(data)
    /\ pc' = "done"
    /\ UNCHANGED <<data, index, exc, active_results, active_posts, sold_results,
                   sold_posts, results, fetches, html, parsed, reference, formatted>>

Next == FetchActive \/ FetchSold \/ Blend \/ Return

Spec == Init /\ [][Next]_vars

----------------------------------------------------------------------------
(* parse_ebay_results on an arbitrary document *)

InitParse ==
    /\ IdlePipeline
    /\ IdleFormat
    /\ html \in Documents
    /\ parsed = None

ParseResults ==
    /\ parsed = None
    /\ parsed' = Some(parse_ebay_results(html))
    /\ UNCHANGED <<html, reference, formatted>>
    /\ UNCHANGED pipeline_vars

NextParse == ParseResults

SpecParse == InitParse /\ [][NextParse]_vars

----------------------------------------------------------------------------
(* format_watch_reference on an arbitrary reference *)

InitFormat ==
    /\ IdlePipeline
    /\ IdleParse
    /\ reference \in References
    /\ formatted = <<>>

\* format_watch_reference(reference)
FormatOnce ==
    /\ formatted = <<>>
    /\ formatted' = <<format_watch_reference(reference)>>
    /\ UNCHANGED <<html, parsed, reference>>
    /\ UNCHANGED pipeline_vars

\* format_watch_reference applied to its own result
FormatAgain ==
    /\ Len(formatted) = 1
    /\ formatted' = Append(formatted, format_watch_reference(formatted[1]))
    /\ UNCHANGED <<html, parsed, reference>>
    /\ UNCHANGED pipeline_vars

NextFormat == FormatOnce \/ FormatAgain

SpecFormat == InitFormat /\ [][NextFormat]_vars

----------------------------------------------------------------------------
(* Properties *)

Defined(o) == o # None

\* the requests made for record k, in the order they were made
FetchesOf(k) == SelectSeq(fetches, LAMBDA f : f.record = k)

\* C1: for every record valuated, total_avg is defined iff avg_active or
\* avg_sold is; it is round((avg_active + avg_sold) / 2, 2) when both are
\* defined (a genuine 0.00 included), the defined one when exactly one is,
\* and none when neither is.
C1_BlendedAverage ==
    \A k \in 1..Len(results) :
        LET w == results[k]
        IN  /\ Defined(w.total_avg) <=> (Defined(w.avg_active) \/ Defined(w.avg_sold))
            /\ (Defined(w.avg_active) /\ Defined(w.avg_sold))
                 => w.total_avg \in
                      {Some(t) : t \in Round2Div(w.avg_active[1] + w.avg_sold[1], 2)}
            /\ (Defined(w.avg_active) /\ ~Defined(w.avg_sold))
                 => w.total_avg = w.avg_active
            /\ (~Defined(w.avg_active) /\ Defined(w.avg_sold))
                 => w.total_avg = w.avg_sold

\* C2: in every result, total_value is defined iff total_avg is defined
\* (presence, not truthiness: 0.00 counts as defined), and then it is
\* total_avg times the integer quantity.
C2_LineValue ==
    \A k \in 1..Len(results) :
        LET w == results[k]
        IN  /\ Defined(w.total_value) <=> Defined(w.total_avg)
            /\ (Defined(w.total_value) /\ int_of_str(w.quantity).ok)
                 => w.total_value[1] = w.total_avg[1] * int_of_str(w.quantity).value

\* C3: the request whose prices become the active average carries no
\* sold/completed filter, the one whose prices become the sold average
\* carries it, and the two requests of a record have the same query.
C3_SoldFilterOnSoldSegment ==
    /\ \A j \in 1..Len(fetches) :
         /\ fetches[j].into = "active" => fetches[j].url.suffix = ""
         /\ fetches[j].into = "sold" => fetches[j].url.suffix = SoldFilter
    /\ \A i, j \in 1..Len(fetches) :
         fetches[i].record = fetches[j].record => fetches[i].url.nkw = fetches[j].url.nkw

\* the line value a segment average alone gives for a quantity
LineValueFrom(avg, quantity) ==
    IF Defined(avg) /\ int_of_str(quantity).ok
    THEN Some(avg[1] * int_of_str(quantity).value)
    ELSE None

\* C4: when the request of one segment is answered with a non-success
\* status, that segment has no average and a post count of 0, the other
\* request is still made, and total_avg and total_value are those of the
\* other segment alone; for either segment.
C4_FailedSegmentUsesOther ==
    \A k \in 1..Len(results) :
        LET w == results[k]
            f == FetchesOf(k)
        IN  /\ Len(f) = 2
            /\ (f[1].status # Some(200))
                 => /\ w.avg_active = None
                    /\ w.active_posts_found = 0
                    /\ w.total_avg = w.avg_sold
                    /\ w.total_value = LineValueFrom(w.avg_sold, w.quantity)
            /\ (f[2].status # Some(200))
                 => /\ w.avg_sold = None
                    /\ w.sold_posts_found = 0
                    /\ w.total_avg = w.avg_active
                    /\ w.total_value = LineValueFrom(w.avg_active, w.quantity)

\* C5: whatever the requests answer, no exception escapes process_watch and
\* calculate_collection_value ends with one result per record.
C5_NoExceptionEscapes ==
    /\ pc # "raised"
    /\ pc = "done" => Len(results) = Len(data)

\* C6: a record whose quantity is not an integer gets no line value and
\* never stops the batch, whether or not prices were found for it.
C6_InvalidQuantitySkipped ==
    /\ \A k \in 1..Len(results) :
         ~int_of_str(results[k].quantity).ok => results[k].total_value = None
    /\ ~(pc = "raised" /\ exc = "ValueError")

\* does one of the headings of the post, lowercased, contain a keyword
HasKeywordHeading(post) ==
    \E h \in {post.headings[i] : i \in 1..Len(post.headings)} :
        \E w \in {keyword_list[j] : j \in 1..Len(keyword_list)} :
            \E a \in 1..Len(h) : \E b \in a..Len(h) :
                [c \in 1..(b - a + 1) |-> lower_char(h[a + c - 1])] = w

\* does the post have a price span whose first token is a number
HasParseablePrice(post) ==
    /\ post.price_span # None
    /\ \E k \in 1..Len(post.price_span[1]) : post.price_span[1][k] \notin Whitespace
    /\ float_round2(clean_token(post.price_span[1])).ok

PriceOf(post) == float_round2(clean_token(post.price_span[1])).cents

\* the positions of the posts of a document that are priced watch listings
PricedWatchPosts(doc) ==
    {k \in 1..Len(doc) : HasKeywordHeading(doc[k]) /\ HasParseablePrice(doc[k])}

\* the prices of the priced watch listings of a document, in document order
PricesInOrder(doc) ==
    LET sel == PricedWatchPosts(doc)
        nth(j) == CHOOSE k \in sel : Cardinality({m \in sel : m < k}) = j - 1
    IN  [j \in 1..Cardinality(sel) |-> PriceOf(doc[nth(j)])]

\* C7: a watch-classified post whose price text yields no number (a
\* non-numeric first token, or no token at all) raises nothing and
\* contributes no price; the prices of the other posts are returned.
C7_UnparseablePriceDropped ==
    parsed # None =>
        /\ parsed[1].exc = ""
        /\ parsed[1].prices = PricesInOrder(html)

\* C8: the prices parse_ebay_results returns are exactly the prices, in
\* document order, of the posts that have a heading containing a keyword
\* (lowercased) and a parseable price span; a post without such a heading
\* contributes nothing, and a document without posts yields no price.
C8_PricesOfWatchPostsInOrder ==
    (parsed # None /\ parsed[1].exc = "") =>
        /\ parsed[1].prices = PricesInOrder(html)
        /\ parsed[1].post_count = Len(html)
        /\ \A k \in 1..Len(html) :
             ~HasKeywordHeading(html[k]) => k \notin PricedWatchPosts(html)
        /\ Len(html) = 0 => parsed[1].prices = <<>>

\* C8 witness: a returned document whose first post is priced but has no
\* keyword heading and whose second post is a priced watch listing found
\* by an upper-case keyword
C8_Witness ==
    /\ parsed # None
    /\ parsed[1].exc = ""
    /\ Len(html) = 2
    /\ ~HasKeywordHeading(html[1])
    /\ HasParseablePrice(html[1])
    /\ html[2].headings = << <<"b", "a", "n", "d">>, <<"R", "E", "L", "O", "J">> >>
    /\ parsed[1].prices = <<123455>>

\* C9: requests are made strictly in sequence, two per valuated record
\* (active then sold, the second also after a failed or empty first one), no
\* request for the next record before the result of the current one is
\* appended, and results holds the records in catalog order.
C9_SequentialPerRecord ==
    /\ \A j \in 1..Len(fetches) :
         /\ fetches[j].record = (j + 1) \div 2
         /\ fetches[j].into = (IF j % 2 = 1 THEN "active" ELSE "sold")
         /\ fetches[j].record <= Len(results) + 1
    /\ \A k \in 1..Len(results) :
         /\ Len(FetchesOf(k)) = 2
         /\ results[k].reference = data[k].reference
         /\ results[k].quantity = data[k].quantity
    /\ Len(results) <= Len(data)
    /\ pc = "done" => Len(results) = Len(data)

\* C9 witness: a finished run over two different records whose first
\* request failed and whose third found no post
C9_Witness ==
    /\ pc = "done"
    /\ Len(results) = 2
    /\ data[1] # data[2]
    /\ Len(fetches) = 4
    /\ fetches[1].status = Some(404)
    /\ results[2].active_posts_found = 0
    /\ fetches[3].status = Some(200)

\* positions of the first and last non-whitespace characters
FirstInk(s) == CHOOSE k \in 1..Len(s) :
                 s[k] \notin Whitespace /\ \A j \in 1..(k - 1) : s[j] \in Whitespace

LastInk(s) == CHOOSE k \in 1..Len(s) :
                s[k] \notin Whitespace /\ \A j \in (k + 1)..Len(s) : s[j] \in Whitespace

HasInk(s) == \E k \in 1..Len(s) : s[k] \notin Whitespace

\* positions of the spaces between the first and last non-whitespace characters
InternalSpaces(s) ==
    IF HasInk(s) THEN {k \in FirstInk(s)..LastInk(s) : s[k] = " "} ELSE {}

Count(s, c) == Cardinality({k \in 1..Len(s) : s[k] = c})

\* what format_watch_reference is said to do to r, giving f: trim, drop the
\* first internal space, turn each other internal space into %20
FormatShape(r, f) ==
    LET sp == InternalSpaces(r)
        n == Cardinality(sp)
        more == IF n = 0 THEN 0 ELSE n - 1
        first == CHOOSE k \in sp : \A m \in sp : k <= m
        inner == IF HasInk(r) THEN SubSeq(r, FirstInk(r), LastInk(r)) ELSE <<>>
    IN  /\ Count(f, " ") = 0
        /\ Count(f, "%") = more
        /\ Len(f) = Len(inner) - n + 3 * more
        /\ SelectSeq(f, LAMBDA c : c \notin {"%", "2", "0"})
             = SelectSeq(inner, LAMBDA c : c # " ")
        /\ \A k \in (IF n >= 2 THEN sp \ {first} ELSE {}) :
             LET at == (k - FirstInk(r) + 1) - 1
                         + 2 * Cardinality({m \in sp : m < k /\ m # first})
             IN  SubSeq(f, at, at + 2) = PercentTwenty

\* C10 as stated: the result has the said shape, and formatting it again
\* leaves it unchanged only when the reference has at most one internal space.
C10_IdempotentOnlyUpToOneSpace ==
    /\ Len(formatted) >= 1 => FormatShape(reference, formatted[1])
    /\ (Len(formatted) = 2 /\ formatted[2] = formatted[1])
         => Cardinality(InternalSpaces(reference)) <= 1

\* C10 amended: the result has the said shape, and formatting it again
\* leaves it unchanged for every reference, also one with two or more
\* internal spaces.
C10_FormatIdempotent ==
    /\ Len(formatted) >= 1 => FormatShape(reference, formatted[1])
    /\ Len(formatted) = 2 => formatted[2] = formatted[1]

\* C10 witness: a reference with surrounding whitespace and two internal
\* spaces, formatted twice
C10_Witness ==
    /\ Len(formatted) = 2
    /\ reference = <<" ", "G", " ", " ", "7">>
    /\ formatted[1] = <<"G", "%", "2", "0", "7">>
    /\ formatted[2] = formatted[1]

====
